---- MODULE Spec2Model ----
(***************************************************************************)
(* Task API of Cloud-Ass2/app.js: an express application that keeps task   *)
(* rows in PostgreSQL (table tasks, JSONB column data) and the number of   *)
(* tasks in the Redis key "taskCount".                                     *)
(*                                                                         *)
(* Every request handler is an async function; it is suspended at each     *)
(* await of a pool.query or redisClient call.  A handler is modelled by    *)
(* one action per awaited call: the action performs the call at the store  *)
(* or cache and runs the handler up to its next await (or its response).   *)
(* Requests are served in NReq concurrent slots.                           *)
(***************************************************************************)
EXTENDS Integers, Sequences, FiniteSets, TLC

(* ------------------------------ bounds --------------------------------- *)
NReq      == 2      \* concurrently served requests
MaxId     == 2      \* task ids 1..MaxId
MaxFaults == 1      \* store/cache outages injected in one behaviour

Reqs == 1 .. NReq
Ids  == 1 .. MaxId

(* --------------------------- JavaScript values -------------------------- *)
Undef   == [t |-> "undefined", v |-> << >>]
Null    == [t |-> "null",      v |-> << >>]
NaN     == [t |-> "NaN",       v |-> << >>]
Str(s)  == [t |-> "string",    v |-> s]
Num(n)  == [t |-> "number",    v |-> <<n>>]

\* typeof x === "string"
IsString(x) == x.t = "string"

\* !x : undefined, null, NaN, "" and 0 are falsy
Falsy(x) ==
  \/ x.t \in {"undefined", "null", "NaN"}
  \/ x.t = "string" /\ x.v = << >>
  \/ x.t = "number" /\ x.v = <<0>>

WhiteSpace == {" ", "\t"}

\* String.prototype.trim: strip leading and trailing white space
RECURSIVE TrimLeft(_)
TrimLeft(s) ==
  IF s # << >> /\ Head(s) \in WhiteSpace THEN TrimLeft(Tail(s)) ELSE s

RECURSIVE TrimRight(_)
TrimRight(s) ==
  IF s # << >> /\ s[Len(s)] \in WhiteSpace
  THEN TrimRight(SubSeq(s, 1, Len(s) - 1)) ELSE s

Trim(s) == TrimRight(TrimLeft(s))

\* x ?? d
Coalesce(x, d) == IF x.t \in {"undefined", "null"} THEN d ELSE x

\* obj.k of an attribute bag (a function from its keys to values)
Field(obj, k) == IF k \in DOMAIN obj THEN obj[k] ELSE Undef

\* { ...a, ...b }
Spread(a, b) ==
  [k \in DOMAIN a \cup DOMAIN b |-> IF k \in DOMAIN b THEN b[k] ELSE a[k]]

EmptyObj == [k \in {} |-> Undef]

\* JSON.stringify of an object followed by the ::jsonb cast: keys whose
\* value is undefined are omitted, NaN is written as null
Jsonb(obj) ==
  [k \in {j \in DOMAIN obj : obj[j] # Undef} |->
     IF obj[k] = NaN THEN Null ELSE obj[k]]

(* ------------------------- decimal strings ------------------------------ *)
Digits == <<"0", "1", "2", "3", "4", "5", "6", "7", "8", "9">>

DigitVal(c) == (CHOOSE i \in 1 .. 10 : Digits[i] = c) - 1

IsDigit(c) == \E i \in 1 .. 10 : Digits[i] = c

RECURSIVE NatToStr(_)
NatToStr(n) ==
  IF n < 10 THEN <<Digits[n + 1]>>
  ELSE NatToStr(n \div 10) \o <<Digits[(n % 10) + 1]>>

\* String(n) for an integer n
IntToStr(n) == IF n < 0 THEN <<"-">> \o NatToStr(0 - n) ELSE NatToStr(n)

RECURSIVE DigitsToNat(_, _)
DigitsToNat(s, acc) ==
  IF s = << >> \/ ~IsDigit(Head(s)) THEN acc
  ELSE DigitsToNat(Tail(s), 10 * acc + DigitVal(Head(s)))

\* value of a decimal integer string, as Redis reads the key for INCR/DECR
StrToInt(s) ==
  IF Head(s) = "-" THEN 0 - DigitsToNat(Tail(s), 0) ELSE DigitsToNat(s, 0)

(* ------------------------------ Redis ----------------------------------- *)
\* The key "taskCount" is Null when the cache does not hold it, else Str(s).
\* GET returns null for a missing key
RedisGet(c) == c

\* INCRBY in place of SET: the string is added to the value found
RedisSetAdds(c, s) ==
  Str(IntToStr((IF c = Null THEN 0 ELSE StrToInt(c.v)) + StrToInt(s)))

\* SET stores the string unconditionally
RedisSet(c, s) == Str(s)

\* INCR / DECR read a missing key as 0, add or subtract one atomically and
\* store the decimal string of the result
RedisIncr(c) == Str(IntToStr((IF c = Null THEN 0 ELSE StrToInt(c.v)) + 1))

\* DECR written as INCR
RedisDecrAsIncr(c) == RedisIncr(c)

RedisDecr(c) == Str(IntToStr((IF c = Null THEN 0 ELSE StrToInt(c.v)) - 1))

\* parseInt(x, 10) of a GET result: NaN for null or when no digit leads
ParseInt(x) ==
  IF x.t # "string" THEN NaN
  ELSE LET s == TrimLeft(x.v)
           d == IF s # << >> /\ Head(s) \in {"-", "+"} THEN Tail(s) ELSE s
       IN  IF d = << >> \/ ~IsDigit(Head(d)) THEN NaN
           ELSE IF Head(s) = "-" THEN Num(0 - DigitsToNat(d, 0))
           ELSE Num(DigitsToNat(d, 0))

(* ---------------------------- PostgreSQL -------------------------------- *)
\* A statement is its verb, the placeholders written in its text (the
\* characters that follow each "$") and the number of values passed with it.
SqlCount  == [verb |-> "COUNT",  marks |-> << >>, nvals |-> 0]
SqlInsert == [verb |-> "INSERT",
              marks |-> << <<"d","a","t","a","v","a","l","u","e","s">> >>,
              nvals |-> 1]
SqlSelect == [verb |-> "SELECT", marks |-> << <<"1">> >>, nvals |-> 1]
SqlUpdate == [verb |-> "UPDATE",
              marks |-> << <<"d","a","t","a","v","a","l","u","e","s">>, <<"1">> >>,
              nvals |-> 2]
SqlDelete == [verb |-> "DELETE", marks |-> << <<"1">> >>, nvals |-> 1]

\* PostgreSQL reads "$" followed by digits as a parameter; "$" followed by a
\* letter is a syntax error.
PgParam(m) == m # << >> /\ \A i \in 1 .. Len(m) : IsDigit(m[i])

\* The statement is parsed and bound: every placeholder is a parameter and
\* the values supplied are as many as the parameters the text refers to.
PgAccepts(stmt) ==
  /\ \A i \in 1 .. Len(stmt.marks) : PgParam(stmt.marks[i])
  /\ Cardinality({stmt.marks[i] : i \in 1 .. Len(stmt.marks)}) = stmt.nvals

\* the highest id in place of the number of rows
StoreCountMaxId(rs) == IF DOMAIN rs = {} THEN 0 ELSE CHOOSE i \in DOMAIN rs : \A j \in DOMAIN rs : j <= i

\* SELECT COUNT(*)::int AS count FROM tasks
StoreCount(rs) == Cardinality(DOMAIN rs)

\* SELECT * FROM tasks WHERE id = $1 : the rows found
StoreSelect(rs, id) == IF id \in DOMAIN rs THEN <<[id |-> id, data |-> rs[id]]>> ELSE << >>

\* INSERT INTO tasks (data) VALUES (..) RETURNING id
StoreInsert(rs, id, data) == [k \in DOMAIN rs \cup {id} |-> IF k = id THEN data ELSE rs[k]]

\* UPDATE tasks SET data = .. WHERE id = ..  (no row: nothing is changed)
StoreUpdate(rs, id, data) == [k \in DOMAIN rs |-> IF k = id THEN data ELSE rs[k]]

\* DELETE without its WHERE clause
StoreDeleteAll(rs, id) == [k \in {} |-> rs[k]]

\* DELETE FROM tasks WHERE id = $1 RETURNING * : the table afterwards
StoreDelete(rs, id) == [k \in DOMAIN rs \ {id} |-> rs[k]]

\* DELETE FROM tasks WHERE id = $1 RETURNING * : the rows returned
StoreDeleted(rs, id) == StoreSelect(rs, id)

(* ------------------------------ inputs ---------------------------------- *)
Pending == Str(<<"p", "e", "n", "d", "i", "n", "g">>)
Done    == Str(<<"d", "o", "n", "e">>)

\* data of the rows the table may hold when the application starts (the
\* table outlives the process)
InitBags ==
  { [title |-> Str(<<"x">>), description |-> Str(<<"y">>), status |-> Pending] }

\* values of the title key of a request body
Titles ==
  { Undef, Null, Num(0), Num(7), Str(<< >>), Str(<<" ", "\t">>),
    Str(<<"a">>), Str(<<" ", "a", " ">>) }

\* request bodies of POST /tasks
PostBodies ==
  { [title |-> t] : t \in Titles \ {Undef} }
  \cup { [description |-> Str(<<"y">>)] }
  \cup { [title |-> Str(<<"a">>), description |-> Str(<<"y">>), status |-> Done] }

\* request bodies of PUT /tasks/:id
PutBodies ==
  { EmptyObj, [status |-> Done], [description |-> Str(<<"z">>)] }

(* ------------------------------- state ---------------------------------- *)
VARIABLES
  rows,     \* table tasks: id -> data, for the ids that have a row
  nextId,   \* the id sequence of the table
  cache,    \* the Redis key "taskCount": Null (missing) or Str(decimal)
  pc,       \* per slot: the await the handler is suspended at, or "idle"
  req,      \* per slot: the request being served
  loc,      \* per slot: the handler's local variables
  last,     \* the request answered last, with its response
  faults,   \* store/cache outages so far
  alone,    \* observer, per slot: in flight, and nothing else has acted
            \* since it began
  epoch,    \* observer: the count initializeTaskCount last wrote and the
            \* creates and deletes answered since (ok: the key was not
            \* lost and no cache call failed since)
  quiet     \* observer, per slot: it is in initializeTaskCount (or past
            \* it) having read the key absent, and no create or delete
            \* has written to the store or adjusted the counter since

vars == <<rows, nextId, cache, pc, req, loc, last, faults, alone, epoch, quiet>>

NoReq  == [m |-> "none", id |-> 0, body |-> EmptyObj]
NoLoc  == [cached |-> Undef, count |-> 0, data |-> EmptyObj, newId |-> 0]

NoEpoch == [ok |-> FALSE, base |-> 0, created |-> 0, deleted |-> 0]
NoLast == [m |-> "none", id |-> 0, body |-> EmptyObj, status |-> 0,
           out |-> EmptyObj, failed |-> FALSE, at |-> "idle", alone |-> FALSE,
           cached |-> Undef, epoch |-> NoEpoch]

ServerError == [status |-> 500, body |-> [error |-> "Server error"]]
NotFound    == [status |-> 404, body |-> [error |-> "Task not found"]]
TitleRequired == [status |-> 400, body |-> [error |-> "Title is required"]]

Init ==
  /\ \E D \in SUBSET Ids : rows \in [D -> InitBags]
  /\ nextId = MaxId + 1
  /\ cache = Null
  /\ pc = [r \in Reqs |-> "idle"]
  /\ req = [r \in Reqs |-> NoReq]
  /\ loc = [r \in Reqs |-> NoLoc]
  /\ last = NoLast
  /\ faults = 0
  /\ alone = [r \in Reqs |-> FALSE]
  /\ epoch = NoEpoch
  /\ quiet = [r \in Reqs |-> FALSE]

(* ------------------------------ helpers --------------------------------- *)
Idle(r) == pc[r] = "idle"

\* a store or cache call either answers (TRUE) or fails with a connection
\* error (FALSE); at most MaxFaults calls fail
Outcomes == IF faults < MaxFaults THEN {TRUE, FALSE} ELSE {TRUE}

Fault(ok) == faults' = IF ok THEN faults ELSE faults + 1

\* slot r acts: it stays alone if it was (or begins while all others are
\* idle), is still in flight, and its call did not fail
Acts(r, begins, ends, ok) ==
  alone' = [s \in Reqs |->
              /\ s = r
              /\ ~ends
              /\ ok
              /\ IF begins THEN \A q \in Reqs \ {r} : Idle(q) ELSE alone[r]]

Request(m, id, body) == [m |-> m, id |-> id, body |-> body]

\* the response is sent: the handler is over
Respond(r, rq, ok, answer) ==
  /\ last' = [m |-> rq.m, id |-> rq.id, body |-> rq.body,
              status |-> answer.status, out |-> answer.body, failed |-> ~ok,
              at |-> pc[r],
              alone |-> alone[r] /\ ok,
              cached |-> loc[r].cached,
              epoch |-> IF rq.m = "STATS" /\ ok THEN epoch ELSE NoEpoch]
  /\ pc' = [pc EXCEPT ![r] = "idle"]
  /\ req' = [req EXCEPT ![r] = NoReq]
  /\ loc' = [loc EXCEPT ![r] = NoLoc]

\* the handler is suspended at its next await
Await(r, rq, at, locals) ==
  /\ pc' = [pc EXCEPT ![r] = at]
  /\ req' = [req EXCEPT ![r] = rq]
  /\ loc' = [loc EXCEPT ![r] = locals]
  /\ UNCHANGED last

\* the counter is no longer the one initializeTaskCount wrote
EpochEnds == epoch' = NoEpoch

\* slot r has acted (pc', loc' are set): r is quiet while it is in or past
\* initializeTaskCount after reading the key absent; the others stay quiet
\* unless r's step was one of a create or delete that took effect
Hush(r, disturbs) ==
  quiet' = [s \in Reqs |->
              IF s = r
              THEN /\ pc'[r] \in {"count", "set", "read"}
                   /\ loc'[r].cached = Null
                   /\ Idle(r) \/ quiet[r]
              ELSE quiet[s] /\ ~disturbs]

(* --------------------------- POST /tasks -------------------------------- *)
\* the test without trim()
TitleMissingNoTrim(title) == Falsy(title) \/ ~IsString(title)

\* !title || typeof title !== "string" || title.trim() === ""
TitleMissing(title) ==
  Falsy(title) \/ ~IsString(title) \/ Trim(title.v) = << >>

Payload(body) ==
  [title       |-> Field(body, "title"),
   description |-> Coalesce(Field(body, "description"), Null),
   status      |-> Coalesce(Field(body, "status"), Pending)]

\* the handler up to its await of the INSERT, the INSERT, and the handler up
\* to its await of INCR (or its response)
Post(r, body) ==
  /\ Idle(r)
  /\ LET rq == Request("POST", 0, body)
     IN  IF TitleMissing(Field(body, "title"))
         THEN /\ Respond(r, rq, TRUE, TitleRequired)
              /\ Acts(r, TRUE, TRUE, TRUE)
              /\ UNCHANGED <<rows, nextId, faults>>
         ELSE \E ok \in Outcomes :
                /\ Fault(ok)
                /\ IF ok /\ PgAccepts(SqlInsert)
                   THEN /\ rows' = StoreInsert(rows, nextId, Jsonb(Payload(body)))
                        /\ nextId' = nextId + 1
                        /\ Await(r, rq, "incr", [loc[r] EXCEPT !.newId = nextId])
                        /\ Acts(r, TRUE, FALSE, ok)
                   ELSE /\ Respond(r, rq, ok, ServerError)
                        /\ Acts(r, TRUE, TRUE, ok)
                        /\ UNCHANGED <<rows, nextId>>
  /\ Hush(r, pc'[r] = "incr")
  /\ UNCHANGED <<cache, epoch>>

(* ------------------------- DELETE /tasks/:id ---------------------------- *)
\* the test of rowCount left out
NothingDeletedNever(rowCount) == FALSE

\* result.rowCount === 0
NothingDeleted(rowCount) == rowCount = 0

\* the DELETE statement and the handler up to its await of DECR
Delete(r, id) ==
  /\ Idle(r)
  /\ \E ok \in Outcomes :
       LET rq == Request("DELETE", id, EmptyObj)
       IN  /\ Fault(ok)
           /\ IF ok /\ PgAccepts(SqlDelete)
              THEN /\ rows' = StoreDelete(rows, id)
                   /\ IF NothingDeleted(Len(StoreDeleted(rows, id)))
                      THEN /\ Respond(r, rq, ok, NotFound)
                           /\ Acts(r, TRUE, TRUE, ok)
                      ELSE /\ Await(r, rq, "decr", loc[r])
                           /\ Acts(r, TRUE, FALSE, ok)
              ELSE /\ Respond(r, rq, ok, ServerError)
                   /\ Acts(r, TRUE, TRUE, ok)
                   /\ UNCHANGED rows
  /\ Hush(r, pc'[r] = "decr")
  /\ UNCHANGED <<nextId, cache, epoch>>

\* INCR / DECR with its error caught and dropped: the request answers as if
\* the counter had been adjusted
AdjustIgnoringError(r) ==
  /\ pc[r] \in {"incr", "decr"}
  /\ \E ok \in Outcomes :
       /\ Fault(ok)
       /\ Acts(r, FALSE, TRUE, ok)
       /\ Respond(r, req[r], ok,
                  IF pc[r] = "incr"
                  THEN [status |-> 201, body |-> [id |-> loc[r].newId]]
                  ELSE [status |-> 204, body |-> EmptyObj])
       /\ IF ok
          THEN /\ cache' = IF pc[r] = "incr" THEN RedisIncr(cache) ELSE RedisDecr(cache)
               /\ epoch' = IF ~epoch.ok THEN epoch
                           ELSE IF pc[r] = "incr"
                                THEN [epoch EXCEPT !.created = @ + 1]
                                ELSE [epoch EXCEPT !.deleted = @ + 1]
          ELSE /\ EpochEnds
               /\ UNCHANGED cache
  /\ Hush(r, TRUE)
  /\ UNCHANGED <<rows, nextId>>

\* redisClient.incr / redisClient.decr and the response that follows it
Adjust(r) ==
  /\ pc[r] \in {"incr", "decr"}
  /\ \E ok \in Outcomes :
       /\ Fault(ok)
       /\ Acts(r, FALSE, TRUE, ok)
       /\ IF ok
          THEN /\ cache' = IF pc[r] = "incr" THEN RedisIncr(cache) ELSE RedisDecr(cache)
               /\ Respond(r, req[r], ok,
                          IF pc[r] = "incr"
                          THEN [status |-> 201, body |-> [id |-> loc[r].newId]]
                          ELSE [status |-> 204, body |-> EmptyObj])
               /\ epoch' = IF ~epoch.ok THEN epoch
                           ELSE IF pc[r] = "incr"
                                THEN [epoch EXCEPT !.created = @ + 1]
                                ELSE [epoch EXCEPT !.deleted = @ + 1]
          ELSE /\ Respond(r, req[r], ok, ServerError)
               /\ EpochEnds
               /\ UNCHANGED cache
  /\ Hush(r, TRUE)
  /\ UNCHANGED <<rows, nextId>>

(* ---------------------- GET /stats, initializeTaskCount ----------------- *)
\* a test of the count's truthiness: "0" is taken for a missing key
AlreadyInitializedNonZero(cached) == cached # Null /\ ParseInt(cached) # Num(0)

\* no test of the value read: initializeTaskCount recounts on every call
AlreadyInitializedNever(cached) == FALSE

\* cached !== null
AlreadyInitialized(cached) == cached # Null

\* initializeTaskCount with the get's error caught and taken for a missing key
StatsErrorAsMiss(r) ==
  /\ Idle(r)
  /\ \E ok \in Outcomes :
       LET rq == Request("STATS", 0, EmptyObj)
           cached == IF ok THEN RedisGet(cache) ELSE Null
       IN  /\ Fault(ok)
           /\ Await(r, rq,
                    IF AlreadyInitialized(cached) THEN "read" ELSE "count",
                    [loc[r] EXCEPT !.cached = cached])
           /\ Acts(r, TRUE, FALSE, ok)
           /\ IF ok THEN UNCHANGED epoch ELSE EpochEnds
  /\ Hush(r, FALSE)
  /\ UNCHANGED <<rows, nextId, cache>>

\* initializeTaskCount: redisClient.get("taskCount") and the test of it
Stats(r) ==
  /\ Idle(r)
  /\ \E ok \in Outcomes :
       LET rq == Request("STATS", 0, EmptyObj)
           cached == RedisGet(cache)
       IN  /\ Fault(ok)
           /\ IF ok
              THEN /\ Await(r, rq,
                            IF AlreadyInitialized(cached) THEN "read" ELSE "count",
                            [loc[r] EXCEPT !.cached = cached])
                   /\ Acts(r, TRUE, FALSE, ok)
                   /\ UNCHANGED epoch
              ELSE /\ Respond(r, rq, ok, ServerError)
                   /\ Acts(r, TRUE, TRUE, ok)
                   /\ EpochEnds
  /\ Hush(r, FALSE)
  /\ UNCHANGED <<rows, nextId, cache>>

\* initializeTaskCount: SELECT COUNT(*)
ReconCount(r) ==
  /\ pc[r] = "count"
  /\ \E ok \in Outcomes :
       /\ Fault(ok)
       /\ IF ok /\ PgAccepts(SqlCount)
          THEN /\ Await(r, req[r], "set", [loc[r] EXCEPT !.count = StoreCount(rows)])
               /\ Acts(r, FALSE, FALSE, ok)
          ELSE /\ Respond(r, req[r], ok, ServerError)
               /\ Acts(r, FALSE, TRUE, ok)
  /\ Hush(r, FALSE)
  /\ UNCHANGED <<rows, nextId, cache, epoch>>

\* initializeTaskCount: redisClient.set("taskCount", String(count))
ReconSet(r) ==
  /\ pc[r] = "set"
  /\ \E ok \in Outcomes :
       /\ Fault(ok)
       /\ IF ok
          THEN /\ cache' = RedisSet(cache, IntToStr(loc[r].count))
               /\ epoch' = [ok |-> TRUE, base |-> loc[r].count,
                            created |-> 0, deleted |-> 0]
               /\ Await(r, req[r], "read", loc[r])
               /\ Acts(r, FALSE, FALSE, ok)
          ELSE /\ Respond(r, req[r], ok, ServerError)
               /\ Acts(r, FALSE, TRUE, ok)
               /\ EpochEnds
               /\ UNCHANGED cache
  /\ Hush(r, FALSE)
  /\ UNCHANGED <<rows, nextId>>

\* res.json: NaN is written as null
JsonNumber(n) == IF n = NaN THEN Null ELSE n

\* the handler's own redisClient.get and its response
StatsRead(r) ==
  /\ pc[r] = "read"
  /\ \E ok \in Outcomes :
       /\ Fault(ok)
       /\ Acts(r, FALSE, TRUE, ok)
       /\ IF ok
          THEN /\ Respond(r, req[r], ok, [status |-> 200,
                    body |-> [taskCount |-> JsonNumber(ParseInt(RedisGet(cache)))]])
               /\ UNCHANGED epoch
          ELSE /\ Respond(r, req[r], ok, ServerError)
               /\ EpochEnds
  /\ Hush(r, FALSE)
  /\ UNCHANGED <<rows, nextId, cache>>

(* -------------------------- GET /tasks/:id ------------------------------ *)
GetTask(r, id) ==
  /\ Idle(r)
  /\ \E ok \in Outcomes :
       LET rq == Request("GET", id, EmptyObj)
           found == StoreSelect(rows, id)
       IN  /\ Fault(ok)
           /\ Acts(r, TRUE, TRUE, ok)
           /\ IF ok /\ PgAccepts(SqlSelect)
              THEN IF Len(found) > 0
                   THEN Respond(r, rq, ok, [status |-> 200, body |-> found[1]])
                   ELSE Respond(r, rq, ok, NotFound)
              ELSE Respond(r, rq, ok, ServerError)
  /\ Hush(r, FALSE)
  /\ UNCHANGED <<rows, nextId, cache, epoch>>

(* -------------------------- PUT /tasks/:id ------------------------------ *)
\* the SELECT and the merge of the request body into the row's data
PutSelect(r, id, body) ==
  /\ Idle(r)
  /\ \E ok \in Outcomes :
       LET rq == Request("PUT", id, body)
           found == StoreSelect(rows, id)
       IN  /\ Fault(ok)
           /\ IF ok /\ PgAccepts(SqlSelect)
              THEN IF Len(found) = 0
                   THEN /\ Respond(r, rq, ok, NotFound)
                        /\ Acts(r, TRUE, TRUE, ok)
                   ELSE /\ Await(r, rq, "update",
                                 [loc[r] EXCEPT !.data = Spread(found[1].data, body)])
                        /\ Acts(r, TRUE, FALSE, ok)
              ELSE /\ Respond(r, rq, ok, ServerError)
                   /\ Acts(r, TRUE, TRUE, ok)
  /\ Hush(r, FALSE)
  /\ UNCHANGED <<rows, nextId, cache, epoch>>

\* the UPDATE followed by an INCR of the counter, as the POST handler does
PutUpdateCounting(r) ==
  /\ pc[r] = "update"
  /\ \E ok \in Outcomes :
       /\ Fault(ok)
       /\ Acts(r, FALSE, TRUE, ok)
       /\ IF ok /\ PgAccepts(SqlUpdate)
          THEN /\ rows' = StoreUpdate(rows, req[r].id, Jsonb(loc[r].data))
               /\ Respond(r, req[r], ok,
                          [status |-> 200,
                           body |-> [id |-> req[r].id, data |-> loc[r].data]])
          ELSE /\ Respond(r, req[r], ok, ServerError)
               /\ UNCHANGED rows
  /\ cache' = RedisIncr(cache)
  /\ Hush(r, FALSE)
  /\ UNCHANGED <<nextId, epoch>>

\* the UPDATE and the response
PutUpdate(r) ==
  /\ pc[r] = "update"
  /\ \E ok \in Outcomes :
       /\ Fault(ok)
       /\ Acts(r, FALSE, TRUE, ok)
       /\ IF ok /\ PgAccepts(SqlUpdate)
          THEN /\ rows' = StoreUpdate(rows, req[r].id, Jsonb(loc[r].data))
               /\ Respond(r, req[r], ok,
                          [status |-> 200,
                           body |-> [id |-> req[r].id, data |-> loc[r].data]])
          ELSE /\ Respond(r, req[r], ok, ServerError)
               /\ UNCHANGED rows
  /\ Hush(r, FALSE)
  /\ UNCHANGED <<nextId, cache, epoch>>

(* ------------------------------ the cache ------------------------------- *)
\* Redis restarts, evicts or flushes the key
LoseKey ==
  /\ cache # Null
  /\ cache' = Null
  /\ EpochEnds
  /\ alone' = [s \in Reqs |-> FALSE]
  /\ UNCHANGED <<rows, nextId, pc, req, loc, last, faults, quiet>>

(* ---------------------------- specification ----------------------------- *)
Next ==
  \/ \E r \in Reqs, body \in PostBodies : Post(r, body)
  \/ \E r \in Reqs, id \in Ids : Delete(r, id)
  \/ \E r \in Reqs : Adjust(r)
  \/ \E r \in Reqs : Stats(r)
  \/ \E r \in Reqs : ReconCount(r)
  \/ \E r \in Reqs : ReconSet(r)
  \/ \E r \in Reqs : StatsRead(r)
  \/ \E r \in Reqs, id \in Ids : GetTask(r, id)
  \/ \E r \in Reqs, id \in Ids, body \in PutBodies : PutSelect(r, id, body)
  \/ \E r \in Reqs : PutUpdate(r)
  \/ LoseKey

Spec == Init /\ [][Next]_vars

(* ======================================================================= *)
(*                               Properties                                *)
(* ======================================================================= *)
RowCount == Cardinality(DOMAIN rows)

\* no create or delete is between its durable write and its cache
\* adjustment, and no reconciliation is between its count and its set
NoWindow == \A r \in Reqs : pc[r] \notin {"incr", "decr", "set"}

C2_CachedCountIsRowCount ==
  (cache # Null /\ faults = 0 /\ NoWindow) => StrToInt(cache.v) = RowCount

\* C3: the key goes from absent to present only by the set of
\* initializeTaskCount, which writes the count it read from the store.
C3_OnlyReconcilerCreatesKey ==
  [][ (cache = Null /\ cache' # Null)
        => \E r \in Reqs : /\ pc[r] = "set" /\ pc'[r] = "read"
                           /\ cache' = Str(IntToStr(loc[r].count)) ]_vars

\* C4: a GET /stats that finds the key absent and runs alone (no other
\* request acts, the key is not lost and no call fails while it runs)
\* answers 200 {taskCount: k} for the k rows of the store and leaves the
\* key holding the decimal string of k.
C4_LoneStatsRecounts ==
  [][ \A r \in Reqs :
        (StatsRead(r) /\ alone[r] /\ loc[r].cached = Null /\ faults' = faults)
          => /\ last'.status = 200
             /\ last'.out = [taskCount |-> Num(RowCount)]
             /\ cache' = Str(IntToStr(RowCount)) ]_vars

C4_Witness ==
  /\ last.m = "STATS" /\ last.alone /\ last.cached = Null
  /\ last.status = 200
  /\ last.out.taskCount = Num(2)
  /\ cache = Str(<<"2">>)

\* C5 (as claimed): the set of initializeTaskCount is applied only while
\* the key is still absent.
C5_SetOnlyWhenStillAbsent ==
  [][ \A r \in Reqs : (pc[r] = "set" /\ pc'[r] = "read") => cache = Null ]_vars

\* C5 (amended): initializeTaskCount goes on to count and set only when its
\* own get found the key absent; a value it read, "0" included, makes it
\* return at once.
C5_SetOnlyAfterAbsentRead ==
  \A r \in Reqs : pc[r] \in {"count", "set"} => loc[r].cached = Null

C5_Witness ==
  /\ \E r \in Reqs : pc[r] = "read" /\ loc[r].cached = Str(<<"0">>)
  /\ \E r \in Reqs : pc[r] = "set" /\ cache # Null

\* C6: a create or delete adjusts the counter only after its own durable
\* write succeeded: a handler reaches its INCR only in a step that inserted
\* its row and its DECR only in a step that removed its row, the step of
\* the durable write (failed or not) leaves the counter alone, and the
\* counter moves only by a pending INCR, DECR or SET or by loss of the key.
C6_AdjustOnlyAfterDurableWrite ==
  [][ /\ \A r \in Reqs :
           (pc[r] = "idle" /\ pc'[r] = "decr")
             => req'[r].id \in DOMAIN rows \ DOMAIN rows'
      /\ \A r \in Reqs :
           (pc[r] = "idle" /\ pc'[r] = "incr")
             => loc'[r].newId \in DOMAIN rows' \ DOMAIN rows
      /\ \A r \in Reqs :
           ((\E b \in PostBodies : Post(r, b)) \/ (\E id \in Ids : Delete(r, id)))
             => cache' = cache
      /\ (cache' # cache /\ cache' # Null)
           => \E r \in Reqs : pc[r] \in {"incr", "decr", "set"} /\ pc'[r] # pc[r]
    ]_vars

C6_Witness ==
  /\ last.m = "DELETE" /\ last.status = 204
  /\ last.id \notin DOMAIN rows
  /\ epoch.ok /\ epoch.deleted = 1
  /\ cache = Str(IntToStr(epoch.base - 1))

\* the title is missing, not a string, empty or made of white space only
TitleAbsentOrBlank(body) ==
  \/ "title" \notin DOMAIN body
  \/ body["title"].t # "string"
  \/ \A i \in 1 .. Len(body["title"].v) : body["title"].v[i] \in WhiteSpace

\* C7: POST /tasks with a missing, non-string, empty or white-space title
\* answers 400 {error: "Title is required"} and changes neither the store
\* nor the cached counter.
C7_BlankTitleRejected ==
  [][ \A r \in Reqs, b \in PostBodies :
        (Post(r, b) /\ TitleAbsentOrBlank(b))
          => /\ last'.status = 400
             /\ last'.out = [error |-> "Title is required"]
             /\ rows' = rows /\ nextId' = nextId /\ cache' = cache ]_vars

C7_Witness ==
  /\ last.m = "POST" /\ last.status = 400
  /\ last.body = [title |-> Str(<<" ", "\t">>)]
  /\ cache # Null /\ RowCount > 0

\* C8: DELETE /tasks/:id for an id without a row leaves the rows and the
\* cached counter as they were and, when the store answers, responds 404
\* {error: "Task not found"}.
C8_DeleteOfMissingIdChangesNothing ==
  [][ \A r \in Reqs, id \in Ids :
        (Delete(r, id) /\ id \notin DOMAIN rows)
          => /\ rows' = rows /\ cache' = cache
             /\ faults' = faults
                  => /\ last'.status = 404
                     /\ last'.out = [error |-> "Task not found"] ]_vars

C8_Witness ==
  /\ last.m = "DELETE" /\ last.status = 404
  /\ last.id \notin DOMAIN rows
  /\ cache # Null /\ RowCount > 0

\* C9: every POST /tasks with a valid title, met by no outage, answers 201.
C9_ValidCreateAnswers201 ==
  (last.m = "POST" /\ ~TitleAbsentOrBlank(last.body) /\ ~last.failed)
    => last.status = 201

\* the stored bag with every key of the request body taking the body's value
Merged(stored, body) ==
  [k \in DOMAIN stored \cup DOMAIN body |->
     IF k \in DOMAIN body THEN body[k] ELSE stored[k]]

\* C10: PUT /tasks/:id on an existing task, run alone and met by no outage,
\* answers 200 {id, data: merged} and stores merged.
C10_PutStoresMerge ==
  [][ \A r \in Reqs :
        (PutUpdate(r) /\ alone[r] /\ faults' = faults /\ req[r].id \in DOMAIN rows)
          => LET merged == Merged(rows[req[r].id], req[r].body)
             IN  /\ last'.status = 200
                 /\ last'.out = [id |-> req[r].id, data |-> merged]
                 /\ req[r].id \in DOMAIN rows'
                 /\ rows'[req[r].id] = merged ]_vars

\* C11: no step of PUT /tasks/:id changes the cached counter (its presence
\* or its value) or the number of rows, whatever the request answers.
C11_PutLeavesCounterAndRowCount ==
  [][ \A r \in Reqs :
        (PutUpdate(r) \/ \E id \in Ids, b \in PutBodies : PutSelect(r, id, b))
          => /\ cache' = cache
             /\ Cardinality(DOMAIN rows') = RowCount ]_vars

\* a PUT that reached its UPDATE has answered, with the counter present
C11_Witness ==
  /\ last.m = "PUT" /\ last.at = "update" /\ ~last.failed
  /\ last.status \in {200, 500}
  /\ cache # Null /\ RowCount > 0

\* a step of slot r that is a call of redisClient
CacheCall(r) == Stats(r) \/ ReconSet(r) \/ StatsRead(r) \/ Adjust(r)

\* C12: a call of the cache that fails ends its request with 500 {error:
\* "Server error"}: after a failed get in initializeTaskCount the request
\* goes on to no count() and no set, and a failed set, incr, decr or get
\* likewise answers 500; the failed call leaves the counter as it was.
C12_CacheErrorIsNotAMiss ==
  [][ \A r \in Reqs :
        (CacheCall(r) /\ faults' # faults)
          => /\ last'.failed
             /\ last'.status = 500
             /\ last'.out = [error |-> "Server error"]
             /\ pc'[r] = "idle"
             /\ cache' = cache /\ rows' = rows ]_vars

\* GET /stats has answered 500 because the get of initializeTaskCount
\* failed while the key was absent
C12_Witness ==
  /\ last.m = "STATS" /\ last.failed /\ last.at = "idle"
  /\ last.status = 500
  /\ cache = Null /\ RowCount > 0
  /\ \A r \in Reqs : Idle(r)

\* C13: every 200 answer of GET /stats carries a number as taskCount.
C13_StatsAnswersAnInteger ==
  (last.m = "STATS" /\ last.status = 200)
    => /\ last.out.taskCount # Null
       /\ last.out.taskCount.t = "number"

\* slot q runs initializeTaskCount (or is just past it) having read the key
\* absent, with no create or delete taking effect since it began
Reconciling(q) == quiet[q] /\ loc[q].cached = Null

\* C14: when initializeTaskCount calls race, each having read the key
\* absent with no create or delete taking effect during them, every set
\* among them writes the number of rows, so the racing writes carry the
\* same value and the cache holds the row count after whichever comes last.
C14_RacingSetsWriteTheRowCount ==
  [][ \A r \in Reqs :
        ( /\ ReconSet(r) /\ faults' = faults
          /\ Reconciling(r)
          /\ \E q \in Reqs \ {r} : Reconciling(q) )
          => /\ cache' = Str(IntToStr(RowCount))
             /\ \A q \in Reqs :
                  (Reconciling(q) /\ pc[q] = "set") => loc[q].count = loc[r].count ]_vars

\* both slots have read the key absent and both have set the count of a
\* table that is not empty
C14_Witness ==
  /\ \A r \in Reqs : pc[r] = "read" /\ Reconciling(r)
  /\ RowCount = MaxId
  /\ cache = Str(IntToStr(RowCount))

\* what the counter will read once the adjustments owed by the requests in
\* flight are applied, less the number of rows
Drift ==
  StrToInt(cache.v)
    + Cardinality({r \in Reqs : pc[r] = "incr"})
    - Cardinality({r \in Reqs : pc[r] = "decr"})
    - RowCount

\* no slot is inside initializeTaskCount past its get
NoRecount == \A r \in Reqs : pc[r] \notin {"count", "set"}

CounterValue(c) == IF c = Null THEN 0 ELSE StrToInt(c.v)

\* C16: an INCR that fails after the row was inserted, or a DECR that fails
\* after the row was deleted, answers 500 {error: "Server error"} and rolls
\* nothing back: the inserted row stays, the deleted row stays deleted, and
\* the counter is one less (one more) than the INCR (DECR) would have left.
C16_FailedAdjustmentKeepsTheWrite ==
  [][ \A r \in Reqs :
        (Adjust(r) /\ faults' # faults)
          => /\ last'.status = 500
             /\ last'.out = [error |-> "Server error"]
             /\ rows' = rows
             /\ pc[r] = "incr"
                  => /\ loc[r].newId \in DOMAIN rows'
                     /\ CounterValue(cache') = CounterValue(RedisIncr(cache)) - 1
             /\ pc[r] = "decr"
                  => /\ req[r].id \notin DOMAIN rows'
                     /\ CounterValue(cache') = CounterValue(RedisDecr(cache)) + 1 ]_vars

\* a DELETE has removed its row and answered 500 at its DECR: the counter
\* the reconciler wrote is one above the number of rows
C16_Witness ==
  /\ last.m = "DELETE" /\ last.at = "decr" /\ last.failed
  /\ last.status = 500
  /\ last.id \notin DOMAIN rows
  /\ \A r \in Reqs : Idle(r)
  /\ cache # Null /\ StrToInt(cache.v) = RowCount + 1

\* slot q is a PUT to the same id as slot r's, suspended at its UPDATE, and
\* the two bodies are not empty and share no key
RacingPut(r, q) ==
  /\ q # r
  /\ pc[q] = "update" /\ req[q].id = req[r].id
  /\ DOMAIN req[q].body # {} /\ DOMAIN req[r].body # {}
  /\ DOMAIN req[q].body \cap DOMAIN req[r].body = {}

\* C17: of two PUTs to the same existing id with disjoint bodies that have
\* both read the row before either writes, the one that writes first, met
\* by no outage, answers 200 and stores its own merge.
C17_RacingPutsAnswer200 ==
  [][ \A r \in Reqs :
        (PutUpdate(r) /\ faults' = faults /\ \E q \in Reqs : RacingPut(r, q))
          => /\ last'.status = 200
             /\ rows'[req[r].id] = loc[r].data ]_vars

\* C18: the cached counter, whenever the key is present, is not negative.
C18_CounterNeverNegative ==
  cache # Null => StrToInt(cache.v) >= 0

====
